---- MODULE Spec2Model ----
(***************************************************************************)
(* Media ingestion of profolia.art: the single-file and ZIP upload         *)
(* handlers and the delete handler of                                      *)
(* backend/src/controllers/profile.controller.ts together with the         *)
(* collaborators they call (aws.service.ts, ai.service.ts, the Prisma      *)
(* record store).  Every await of a handler is one step of the model, so   *)
(* the per-entry try/catch of uploadZipArchive and the request-level       *)
(* try/catch of the handlers are visible as transitions.                   *)
(*                                                                         *)
(* File names are sequences of one-character strings, so that basename,    *)
(* extension and case conversion are computed the way the code computes    *)
(* them.                                                                   *)
(***************************************************************************)
EXTENDS Integers, Sequences, FiniteSets, TLC

\* ------------------------------------------------------------------ bounds
MaxEntries == 2

MaxClock == 1

\* ------------------------------------------------------- values and inputs
Undefined == "undefined"

BUCKET_NAME == "profolia-portfolios"

Users == {"u1", "u2"}

\* The profile table: u1 owns profile p1, u2 has no profile yet.
Profiles == {[id |-> "p1", userId |-> "u1", professionType |-> "photographer"]}

\* prisma.profile.findFirst({ where: { userId } }), as the set of rows found.
findProfile(userId) == {p \in Profiles : p.userId = userId}

Hashes == {"h0", "h1"}

A_JPG == <<"a", ".", "J", "P", "G">>

B_MP4 == <<"b", ".", "m", "p", "4">>

C_EXE == <<"c", ".", "e", "x", "e">>

D_C_EXE == <<"d", "/", "c", ".", "e", "x", "e">>

R_PDF == <<"r", ".", "p", "d", "f">>

N_NOEXT == <<"n">>

D_DIR == <<"d", "/">>

EntryNames == {A_JPG, R_PDF, C_EXE, D_C_EXE, N_NOEXT, D_DIR}

\* zip.getEntries(): entries in archive order, entry names pairwise distinct.
Archives ==
  {z \in UNION {[1..n -> EntryNames] : n \in 0..MaxEntries} :
     \A i, j \in 1..Len(z) : i # j => z[i] # z[j]}

\* req.file of the single-file endpoint: declared content type and name.
SingleFiles ==
  {[mimetype |-> <<"image", "/", "jpeg">>, originalname |-> A_JPG],
   [mimetype |-> <<"video", "/", "mp4">>, originalname |-> B_MP4],
   [mimetype |-> <<"application", "/", "pdf">>, originalname |-> R_PDF],
   [mimetype |-> <<"application", "/", "zip">>, originalname |-> N_NOEXT],
   [mimetype |-> <<"application", "/", "x-msdownload">>, originalname |-> C_EXE]}

Descriptions == {Undefined, "my work"}

\* ------------------------------------------------------------ string model
Capitals ==
  <<"A", "B", "C", "D", "E", "F", "G", "H", "I", "J", "K", "L", "M",
    "N", "O", "P", "Q", "R", "S", "T", "U", "V", "W", "X", "Y", "Z">>

Letters ==
  <<"a", "b", "c", "d", "e", "f", "g", "h", "i", "j", "k", "l", "m",
    "n", "o", "p", "q", "r", "s", "t", "u", "v", "w", "x", "y", "z">>

\* String.prototype.toLowerCase on the letters A to Z.
UpperToLower ==
  [c \in {Capitals[i] : i \in 1..Len(Capitals)} |->
     Letters[CHOOSE i \in 1..Len(Capitals) : Capitals[i] = c]]

\* Variant: the extension is compared as it is spelled.
toLowerCase_AsSpelled(s) == s

toLowerCase(s) ==
  [i \in 1..Len(s) |-> IF s[i] \in DOMAIN UpperToLower THEN UpperToLower[s[i]] ELSE s[i]]

lastIndexOf(s, c) ==
  LET hits == {i \in 1..Len(s) : s[i] = c}
  IN IF hits = {} THEN 0 ELSE CHOOSE i \in hits : \A j \in hits : j <= i

\* adm-zip: entry.isDirectory is set for entry names that end in "/".
isDirectory(entryName) ==
  Len(entryName) > 0 /\ entryName[Len(entryName)] = "/"

\* adm-zip: entry.name is the last path segment of entry.entryName.
entryBaseName(entryName) ==
  LET n == IF isDirectory(entryName) THEN SubSeq(entryName, 1, Len(entryName) - 1)
           ELSE entryName
      k == lastIndexOf(n, "/")
  IN SubSeq(n, k + 1, Len(n))

\* path.extname: from the last "." of the base name, "" when there is no
\* "." or when the only "." is the first character of the base name.
extname(fileName) ==
  LET b == SubSeq(fileName, lastIndexOf(fileName, "/") + 1, Len(fileName))
      k == lastIndexOf(b, ".")
  IN IF k <= 1 THEN <<>> ELSE SubSeq(b, k, Len(b))

\* fileName.split('.').pop(): the text after the last ".", the whole name
\* when it has none.
splitDotPop(fileName) ==
  SubSeq(fileName, lastIndexOf(fileName, ".") + 1, Len(fileName))

\* A content type is the sequence <<type, "/", subtype>>, so that
\* mimetype.startsWith('image') is a test of its first token.
startsWith(mimeType, prefix) ==
  Len(mimeType) > 0 /\ mimeType[1] = prefix

\* ------------------------------------------------------------ type tables
ImageExts ==
  {<<".", "j", "p", "g">>,
   <<".", "j", "p", "e", "g">>,
   <<".", "p", "n", "g">>,
   <<".", "g", "i", "f">>,
   <<".", "w", "e", "b", "p">>}

VideoExts ==
  {<<".", "m", "p", "4">>,
   <<".", "w", "e", "b", "m">>,
   <<".", "m", "o", "v">>,
   <<".", "a", "v", "i">>}

AudioExts ==
  {<<".", "m", "p", "3">>,
   <<".", "w", "a", "v">>,
   <<".", "o", "g", "g">>,
   <<".", "m", "4", "a">>}

PdfExt == <<".", "p", "d", "f">>

\* Variant: the supported list also holds .exe.
isSupportedType_WithExe(ext) ==
  ext \in ImageExts \cup VideoExts \cup AudioExts \cup {PdfExt, <<".", "e", "x", "e">>}

\* Variant: the extension test lets every entry through.
isSupportedType_Any(ext) == TRUE

\* supportedTypes.some(...) of uploadZipArchive.
isSupportedType(ext) ==
  \/ ext \in ImageExts
  \/ ext \in VideoExts
  \/ ext \in AudioExts
  \/ ext = PdfExt

mimeTypes ==
  [e \in ImageExts \cup VideoExts \cup AudioExts \cup {PdfExt} |->
     CASE e = <<".", "j", "p", "g">> -> <<"image", "/", "jpeg">>
       [] e = <<".", "j", "p", "e", "g">> -> <<"image", "/", "jpeg">>
       [] e = <<".", "p", "n", "g">> -> <<"image", "/", "png">>
       [] e = <<".", "g", "i", "f">> -> <<"image", "/", "gif">>
       [] e = <<".", "w", "e", "b", "p">> -> <<"image", "/", "webp">>
       [] e = <<".", "m", "p", "4">> -> <<"video", "/", "mp4">>
       [] e = <<".", "w", "e", "b", "m">> -> <<"video", "/", "webm">>
       [] e = <<".", "m", "o", "v">> -> <<"video", "/", "quicktime">>
       [] e = <<".", "a", "v", "i">> -> <<"video", "/", "x-msvideo">>
       [] e = <<".", "m", "p", "3">> -> <<"audio", "/", "mpeg">>
       [] e = <<".", "w", "a", "v">> -> <<"audio", "/", "wav">>
       [] e = <<".", "o", "g", "g">> -> <<"audio", "/", "ogg">>
       [] e = <<".", "m", "4", "a">> -> <<"audio", "/", "mp4">>
       [] e = <<".", "p", "d", "f">> -> <<"application", "/", "pdf">>]

getMimeType(ext) ==
  IF toLowerCase(ext) \in DOMAIN mimeTypes THEN mimeTypes[toLowerCase(ext)]
  ELSE <<"application", "/", "octet-stream">>

\* multer fileFilter of both upload endpoints.
allowedTypes ==
  {<<"image", "/", "jpeg">>,
   <<"image", "/", "png">>,
   <<"image", "/", "gif">>,
   <<"image", "/", "webp">>,
   <<"video", "/", "mp4">>,
   <<"video", "/", "webm">>,
   <<"video", "/", "quicktime">>,
   <<"audio", "/", "mpeg">>,
   <<"audio", "/", "wav">>,
   <<"audio", "/", "ogg">>,
   <<"application", "/", "pdf">>,
   <<"application", "/", "zip">>}

fileFilter(mimetype) == mimetype \in allowedTypes

\* Variant: the kind is the first token of the content type.
fileTypeOf_Prefix(mimeType) == mimeType[1]

\* "Determine file type": the startsWith chain of both handlers.
fileTypeOf(mimeType) ==
  IF startsWith(mimeType, "image") THEN "image"
  ELSE IF startsWith(mimeType, "video") THEN "video"
  ELSE IF startsWith(mimeType, "audio") THEN "audio"
  ELSE "document"

\* ------------------------------------------- inputs over the whole tables
\* Entry names with every extension of supportedTypes in lower case.
LowerCaseNames ==
  {<<"f", ".", "j", "p", "g">>,
   <<"f", ".", "j", "p", "e", "g">>,
   <<"f", ".", "p", "n", "g">>,
   <<"f", ".", "g", "i", "f">>,
   <<"f", ".", "w", "e", "b", "p">>,
   <<"f", ".", "m", "p", "4">>,
   <<"f", ".", "w", "e", "b", "m">>,
   <<"f", ".", "m", "o", "v">>,
   <<"f", ".", "a", "v", "i">>,
   <<"f", ".", "m", "p", "3">>,
   <<"f", ".", "w", "a", "v">>,
   <<"f", ".", "o", "g", "g">>,
   <<"f", ".", "m", "4", "a">>,
   <<"f", ".", "p", "d", "f">>}

\* The same names as a case-preserving archiver stores them for upper-case
\* files.
UpperCaseNames ==
  {<<"f", ".", "J", "P", "G">>,
   <<"f", ".", "J", "P", "E", "G">>,
   <<"f", ".", "P", "N", "G">>,
   <<"f", ".", "G", "I", "F">>,
   <<"f", ".", "W", "E", "B", "P">>,
   <<"f", ".", "M", "P", "4">>,
   <<"f", ".", "W", "E", "B", "M">>,
   <<"f", ".", "M", "O", "V">>,
   <<"f", ".", "A", "V", "I">>,
   <<"f", ".", "M", "P", "3">>,
   <<"f", ".", "W", "A", "V">>,
   <<"f", ".", "O", "G", "G">>,
   <<"f", ".", "M", "4", "A">>,
   <<"f", ".", "P", "D", "F">>}

\* Mixed case, two dots, unknown extension, trailing dot, dot file, no dot.
OtherNames ==
  {<<"f", ".", "J", "p", "g">>,
   <<"f", ".", "t", "a", "r", ".", "G", "I", "F">>,
   <<"f", ".", "t", "x", "t">>,
   <<"f", ".", "j", "p", "g", ".", "T", "X", "T">>,
   <<"f", ".">>,
   <<".", "j", "p", "g">>,
   <<"f", "j", "p", "g">>}

TypeNames == LowerCaseNames \cup UpperCaseNames \cup OtherNames

D_A_JPG == <<"d", "/", "a", ".", "J", "P", "G">>

B_JPG == <<"b", ".", "J", "P", "G">>

\* Archives of one entry for every name of TypeNames, an archive whose two
\* entries have the same base name in different folders, and one whose two
\* entries differ in the base name and agree in the extension.
WideArchives == {<<n>> : n \in TypeNames} \cup {<<A_JPG, D_A_JPG>>, <<A_JPG, B_JPG>>}

WideZipFiles ==
  {[present |-> TRUE, mimetype |-> <<"application", "/", "zip">>, readable |-> TRUE, entries |-> z] :
     z \in WideArchives}

\* One req.file for every content type of allowedTypes.
WideSingleFiles ==
  {[mimetype |-> <<"image", "/", "jpeg">>, originalname |-> <<"f", ".", "j", "p", "g">>],
   [mimetype |-> <<"image", "/", "png">>, originalname |-> <<"f", ".", "p", "n", "g">>],
   [mimetype |-> <<"image", "/", "gif">>, originalname |-> <<"f", ".", "g", "i", "f">>],
   [mimetype |-> <<"image", "/", "webp">>, originalname |-> <<"f", ".", "w", "e", "b", "p">>],
   [mimetype |-> <<"video", "/", "mp4">>, originalname |-> <<"f", ".", "m", "p", "4">>],
   [mimetype |-> <<"video", "/", "webm">>, originalname |-> <<"f", ".", "w", "e", "b", "m">>],
   [mimetype |-> <<"video", "/", "quicktime">>, originalname |-> <<"f", ".", "M", "O", "V">>],
   [mimetype |-> <<"audio", "/", "mpeg">>, originalname |-> <<"f", ".", "m", "p", "3">>],
   [mimetype |-> <<"audio", "/", "wav">>, originalname |-> <<"f", ".", "w", "a", "v">>],
   [mimetype |-> <<"audio", "/", "ogg">>, originalname |-> <<"f", ".", "o", "g", "g">>],
   [mimetype |-> <<"application", "/", "pdf">>, originalname |-> <<"f", ".", "p", "d", "f">>],
   [mimetype |-> <<"application", "/", "zip">>, originalname |-> <<"f", ".", "z", "i", "p">>]}


\* ---------------------------------------------------------- aws.service.ts
\* Variant: the key is made of the timestamp alone.
generateMediaKey_NoHash(profileId, fileName, timestamp, hash) ==
  <<"media", "/", profileId, "/", ToString(timestamp), ".">> \o splitDotPop(fileName)

\* generateMediaKey: `media/${profileId}/${timestamp}-${hash}.${extension}`,
\* timestamp = Date.now(), hash = crypto.randomBytes(8).toString('hex').
generateMediaKey(profileId, fileName, timestamp, hash) ==
  <<"media", "/", profileId, "/", ToString(timestamp), "-", hash, ".">>
    \o splitDotPop(fileName)

\* The URL uploadToS3 returns once s3Client.send has succeeded.
s3Url(key) ==
  <<"https://", BUCKET_NAME, ".s3.amazonaws.com", "/">> \o key

\* Variant: the put is acknowledged and the object is not kept.
putObject_Lost(store, key, body, contentType) == store

\* PutObject: the object under the key is created or replaced.
putObject(store, key, body, contentType) ==
  {o \in store : o.key # key}
    \cup {[key |-> key, body |-> body, contentType |-> contentType]}

\* DeleteObject: the object under the key is gone afterwards; deleting a key
\* that names no object changes nothing.
deleteObject(store, key) == {o \in store : o.key # key}

\* Variant: the catch block of deleteFromS3 logs the error and returns.
deleteFromS3_Swallow(store, key, ok) ==
  [threw |-> FALSE, store |-> IF ok THEN deleteObject(store, key) ELSE store]

\* deleteFromS3: s3Client.send(DeleteObjectCommand) settles; the catch block
\* logs and rethrows.
deleteFromS3(store, key, ok) ==
  [threw |-> ~ok, store |-> IF ok THEN deleteObject(store, key) ELSE store]

\* ----------------------------------------------------------- ai.service.ts
\* What anthropic.messages.create can do for one call: reject, answer with a
\* non-text block, answer with text that is not JSON, or answer with a JSON
\* array.  An array element is a record; a malformed element lacks fields.
GoodEntry == [category |-> "Gallery", tags |-> <<"portfolio">>, description |-> "a photo"]

MalformedEntry == [description |-> "a photo"]

ClassifierReplies ==
  {[kind |-> "reject"],
   [kind |-> "nontext"],
   [kind |-> "badjson"],
   [kind |-> "json", value |-> <<>>],
   [kind |-> "json", value |-> <<GoodEntry>>],
   [kind |-> "json", value |-> <<MalformedEntry>>]}

\* Variant: a reply that is not one complete entry per descriptor is replaced
\* by one complete entry.
analyzeMedia_OnePerDescriptor(reply) ==
  IF reply.kind \in {"reject", "badjson"} THEN [threw |-> TRUE, error |-> "APIError"]
  ELSE IF reply.kind = "json" /\ reply.value = <<GoodEntry>>
  THEN [threw |-> FALSE, value |-> reply.value]
  ELSE [threw |-> FALSE, value |-> <<GoodEntry>>]

\* analyzeMedia: the result of the call, either thrown or returned.  The
\* catch block logs and rethrows, so a rejected call and a JSON.parse
\* failure both leave the function as an exception.
analyzeMedia(reply) ==
  IF reply.kind = "reject" THEN [threw |-> TRUE, error |-> "APIError"]
  ELSE IF reply.kind = "nontext" THEN [threw |-> FALSE, value |-> <<>>]
  ELSE IF reply.kind = "badjson" THEN [threw |-> TRUE, error |-> "SyntaxError"]
  ELSE [threw |-> FALSE, value |-> reply.value]

\* ---------------------------------------------------- profile.controller.ts
\* analysis[0] || { category: 'Uncategorized', tags: [], description }
mediaDataOf(analysis, description) ==
  IF Len(analysis) > 0 THEN analysis[1]
  ELSE [category |-> "Uncategorized", tags |-> <<>>, description |-> description]

\* mediaData.category: undefined when the object lacks the property.
categoryOf(mediaData) ==
  IF "category" \in DOMAIN mediaData THEN mediaData.category ELSE Undefined

\* JSON.stringify(mediaData.tags): the JSON text of the array, undefined for
\* an undefined argument.
stringifyTags(mediaData) ==
  IF "tags" \in DOMAIN mediaData THEN <<"[">> \o mediaData.tags \o <<"]">>
  ELSE <<Undefined>>

\* Variant: the kind stored is the category the classifier suggested.
assetData_ClassifierKind(profileId, fileName, fileType, fileUrl, mediaData) ==
  [profileId |-> profileId, fileName |-> fileName, fileType |-> categoryOf(mediaData),
   fileUrl |-> fileUrl, category |-> categoryOf(mediaData),
   tags |-> stringifyTags(mediaData)]

\* The data object handed to prisma.mediaAsset.create.
assetData(profileId, fileName, fileType, fileUrl, mediaData) ==
  [profileId |-> profileId, fileName |-> fileName, fileType |-> fileType,
   fileUrl |-> fileUrl, category |-> categoryOf(mediaData),
   tags |-> stringifyTags(mediaData)]

\* prisma.mediaAsset.create: the stored row is the data plus a fresh id.
createdRow(id, data) ==
  [id |-> id, profileId |-> data.profileId, fileName |-> data.fileName,
   fileType |-> data.fileType, fileUrl |-> data.fileUrl,
   category |-> data.category, tags |-> data.tags]

\* mediaAsset.fileUrl.split(`${process.env.S3_BUCKET_NAME}/`)[1]: the text
\* between the first and the second occurrence of the bucket name followed by
\* "/", undefined when the URL holds no such occurrence.
keyFromUrl(fileUrl) ==
  LET hits == {i \in 1..(Len(fileUrl) - 1) : fileUrl[i] = BUCKET_NAME /\ fileUrl[i + 1] = "/"}
  IN IF hits = {} THEN <<Undefined>>
     ELSE LET first == CHOOSE i \in hits : \A j \in hits : i <= j
              later == {i \in hits : i > first + 1}
              stop == IF later = {} THEN Len(fileUrl) + 1
                      ELSE CHOOSE i \in later : \A j \in later : i <= j
          IN SubSeq(fileUrl, first + 2, stop - 1)

\* Variant: the newest row is put at the head of the list.
pushAsset_Front(assets, row) == <<row>> \o assets

\* uploadedAssets.push(mediaAsset)
pushAsset(assets, row) == Append(assets, row)

\* Variant: an unsupported entry is skipped without a record.
pushUnsupported_Skip(errs, fileName) == errs

\* errors.push({ fileName, error: 'Unsupported file type' })
pushUnsupported(errs, fileName) ==
  Append(errs, [fileName |-> fileName, error |-> "Unsupported file type"])

\* Variant: the catch block swallows the exception.
catchFileError_Swallow(errs, entryName, fileError) == errs

\* catch (fileError) { errors.push({ fileName: entry.name, error }) }
catchFileError(errs, entryName, fileError) ==
  Append(errs, [fileName |-> entryBaseName(entryName), error |-> fileError])

\* Variant: the total counts the successes only.
zipSummary_SuccessesOnly(assets, errs) ==
  [total |-> Len(assets), successful |-> Len(assets), failed |-> Len(errs)]

\* summary of the ZIP response.
zipSummary(assets, errs) ==
  [total |-> Len(assets) + Len(errs), successful |-> Len(assets), failed |-> Len(errs)]

\* Variant: the body never carries the failure list.
zipBody_NoErrors(assets, errs) ==
  [uploadedAssets |-> assets,
   summary |-> [total |-> Len(assets) + Len(errs), successful |-> Len(assets),
                failed |-> Len(errs)]]

\* errors: errors.length > 0 ? errors : undefined.  The body keeps the key
\* only when the list is not empty.
zipBody(assets, errs) ==
  IF Len(errs) > 0
  THEN [uploadedAssets |-> assets, errors |-> errs, summary |-> zipSummary(assets, errs)]
  ELSE [uploadedAssets |-> assets, summary |-> zipSummary(assets, errs)]

\* next(error) followed by errorHandler: AppError keeps its status code,
\* anything else is answered with 500.
errorResponse(statusCode, message) ==
  [status |-> statusCode, error |-> message]

\* Variant: the loop is left instead of continued.
nextEntry_Break(i, n) == n + 1

\* The for-of loop of uploadZipArchive moves to the next entry after a
\* `continue`, after the catch block and after uploadedAssets.push.
nextEntry(i, n) == i + 1

\* ------------------------------------------------------------------- state
VARIABLES
  objects,         \* Object Store: the objects of the bucket
  mediaAssets,     \* Record Store: the rows of the mediaAsset table
  nextId,          \* id the Record Store gives to the next row
  classifierLog,   \* Content Classifier: the replies it gave, one per call
  now,             \* Date.now() as last read by generateMediaKey
  draws,           \* the locals of every generateMediaKey call so far, and its key
  pc,              \* position of the request in its handler
  profile,         \* const profile of the running handler
  zipEntries,      \* const zipEntries = zip.getEntries()
  idx,             \* position of the for-of loop in zipEntries
  uploadedAssets,  \* const uploadedAssets = []
  errors,          \* const errors = []
  cur,             \* locals of the item in flight (fileName, s3Key, ...)
  response,        \* what the request was answered with
  req,             \* the request being handled: handler, userId, req.file
  sibling          \* the sibling handler uploadArchive: its locals and stores

vars ==
  <<objects, mediaAssets, nextId, classifierLog, now, draws, pc, profile, zipEntries,
    idx, uploadedAssets, errors, cur, response, req, sibling>>

NoLocals == [fileName |-> <<>>]

NoResponse == [status |-> 0]

NoRequest == [handler |-> "none"]

NoProfile == [id |-> "none", userId |-> "none", professionType |-> "none"]

\* uploadArchive before any request has reached it.
NoSibling ==
  [pc |-> "idle", profile |-> NoProfile, zipEntries |-> <<>>, idx |-> 1, cur |-> NoLocals,
   uploadedFiles |-> <<>>, analyzedFiles |-> <<>>, objects |-> {}, mediaAssets |-> {},
   response |-> NoResponse]

Init ==
  /\ objects = {}
  /\ mediaAssets = {}
  /\ nextId = 1
  /\ classifierLog = <<>>
  /\ now = 0
  /\ draws = <<>>
  /\ pc = "idle"
  /\ profile = NoProfile
  /\ zipEntries = <<>>
  /\ idx = 1
  /\ uploadedAssets = <<>>
  /\ errors = <<>>
  /\ cur = NoLocals
  /\ response = NoResponse
  /\ req = NoRequest
  /\ sibling = NoSibling

stores == <<objects, mediaAssets, nextId>>

collaborators == <<objects, mediaAssets, nextId, classifierLog>>

zipLocals == <<zipEntries, idx, uploadedAssets, errors>>

entropy == <<now, draws>>

\* generateMediaKey has read Date.now() and crypto.randomBytes(8) and made a
\* key of them.
drawn(log, fileName, timestamp, hash, key) ==
  Append(log, [timestamp |-> timestamp, hash |-> hash,
               extension |-> splitDotPop(fileName), key |-> key])

\* Date.now() does not go back; it may or may not have advanced since the
\* previous key was generated.
Clock == {t \in now..(now + 1) : t <= MaxClock}

\* A request is answered with an error passed to next(error).
Fail(statusCode, message, donePc) ==
  /\ response' = errorResponse(statusCode, message)
  /\ pc' = donePc

\* The locals of uploadZipArchive before its loop has been set up.
NoZipLocals ==
  /\ zipEntries' = <<>>
  /\ idx' = 1
  /\ uploadedAssets' = <<>>
  /\ errors' = <<>>

\* One request is followed from its arrival to its answer.
Idle == pc = "idle"

\* ------------------------------------------------ uploadZipArchive, by await
ZipFiles ==
  {[present |-> FALSE, mimetype |-> <<"application", "/", "zip">>, readable |-> FALSE, entries |-> <<>>]}
  \cup {[present |-> TRUE, mimetype |-> m, readable |-> FALSE, entries |-> <<>>] :
          m \in {<<"application", "/", "zip">>, <<"application", "/", "x-msdownload">>}}
  \cup {[present |-> TRUE, mimetype |-> <<"application", "/", "zip">>, readable |-> TRUE, entries |-> z] :
          z \in Archives}

\* Variant: unreadable bytes are taken for an archive without entries.
readZip_Lenient(file) == [threw |-> FALSE, entries |-> file.entries]

\* new AdmZip(req.file.buffer).getEntries(): the constructor throws on bytes
\* that are not a ZIP archive.
readZip(file) ==
  IF file.readable THEN [threw |-> FALSE, entries |-> file.entries]
  ELSE [threw |-> TRUE, entries |-> <<>>]

\* From the request to the first loop iteration: multer's filter, the
\* req.file check, the profile lookup and new AdmZip(req.file.buffer).
UploadZipArchiveStart(userId, file) ==
  /\ UNCHANGED sibling
  /\ Idle
  /\ req' = [handler |-> "uploadZipArchive", userId |-> userId, file |-> file]
  /\ cur' = NoLocals
  /\ UNCHANGED <<collaborators, entropy>>
  /\ IF file.present /\ ~fileFilter(file.mimetype)
     THEN Fail(500, "Internal server error", "zipDone")
          /\ profile' = NoProfile /\ NoZipLocals
     ELSE IF ~file.present
     THEN Fail(400, "No ZIP file provided", "zipDone")
          /\ profile' = NoProfile /\ NoZipLocals
     ELSE IF findProfile(userId) = {}
     THEN Fail(404, "Profile not found. Please create a profile first.", "zipDone")
          /\ profile' = NoProfile /\ NoZipLocals
     ELSE IF readZip(file).threw
     THEN /\ Fail(500, "Internal server error", "zipDone")
          /\ profile' = CHOOSE p \in findProfile(userId) : TRUE
          /\ NoZipLocals
     ELSE /\ profile' = CHOOSE p \in findProfile(userId) : TRUE
          /\ zipEntries' = readZip(file).entries
          /\ idx' = 1
          /\ uploadedAssets' = <<>>
          /\ errors' = <<>>
          /\ response' = NoResponse
          /\ pc' = "zipLoop"

\* One loop iteration up to its first await: directory entries are skipped,
\* unsupported entries are reported, a supported entry gets its key and the
\* upload is issued.
ZipNextEntry(timestamp, hash) ==
  /\ UNCHANGED sibling
  /\ pc = "zipLoop"
  /\ idx <= Len(zipEntries)
  /\ UNCHANGED <<collaborators, profile, zipEntries, uploadedAssets, response, req>>
  /\ LET entry == zipEntries[idx]
         fileName == entryBaseName(entry)
         ext == toLowerCase(extname(fileName))
     IN IF isDirectory(entry)
        THEN /\ idx' = nextEntry(idx, Len(zipEntries))
             /\ UNCHANGED <<errors, cur, entropy, pc>>
        ELSE IF ~isSupportedType(ext)
        THEN /\ errors' = pushUnsupported(errors, fileName)
             /\ idx' = nextEntry(idx, Len(zipEntries))
             /\ UNCHANGED <<cur, entropy, pc>>
        ELSE /\ now' = timestamp
             /\ draws' = drawn(draws, fileName, timestamp, hash,
                               generateMediaKey(profile.id, fileName, timestamp, hash))
             /\ cur' = [fileName |-> fileName,
                        s3Key |-> generateMediaKey(profile.id, fileName, timestamp, hash),
                        mimeType |-> getMimeType(ext)]
             /\ pc' = "zipPut"
             /\ UNCHANGED <<errors, idx>>

\* await uploadToS3(...) settles; then the file type is determined and
\* analyzeMedia is called.
ZipUploadToS3Returns(ok) ==
  /\ UNCHANGED sibling
  /\ pc = "zipPut"
  /\ UNCHANGED <<mediaAssets, nextId, classifierLog, entropy, profile, zipEntries, uploadedAssets, response, req>>
  /\ IF ok
     THEN /\ objects' = putObject(objects, cur.s3Key, zipEntries[idx], cur.mimeType)
          /\ cur' = [fileName |-> cur.fileName, s3Key |-> cur.s3Key,
                     fileUrl |-> s3Url(cur.s3Key), fileType |-> fileTypeOf(cur.mimeType)]
          /\ pc' = "zipAnalyze"
          /\ UNCHANGED <<errors, idx>>
     ELSE /\ errors' = catchFileError(errors, zipEntries[idx], "S3Error")
          /\ idx' = nextEntry(idx, Len(zipEntries))
          /\ cur' = NoLocals
          /\ pc' = "zipLoop"
          /\ UNCHANGED objects

\* await analyzeMedia(...) settles; then mediaData is chosen and
\* prisma.mediaAsset.create is called.
ZipAnalyzeMediaReturns(reply) ==
  /\ UNCHANGED sibling
  /\ pc = "zipAnalyze"
  /\ classifierLog' = Append(classifierLog, reply)
  /\ UNCHANGED <<stores, entropy, profile, zipEntries, uploadedAssets, response, req>>
  /\ LET analysis == analyzeMedia(reply)
     IN IF analysis.threw
        THEN /\ errors' = catchFileError(errors, zipEntries[idx], analysis.error)
             /\ idx' = nextEntry(idx, Len(zipEntries))
             /\ cur' = NoLocals
             /\ pc' = "zipLoop"
        ELSE /\ cur' = [fileName |-> cur.fileName, s3Key |-> cur.s3Key,
                        fileUrl |-> cur.fileUrl, fileType |-> cur.fileType,
                        mediaData |-> mediaDataOf(analysis.value, "")]
             /\ pc' = "zipCreate"
             /\ UNCHANGED <<errors, idx>>

\* await prisma.mediaAsset.create(...) settles; the row is pushed to
\* uploadedAssets.
ZipCreateReturns(ok) ==
  /\ UNCHANGED sibling
  /\ pc = "zipCreate"
  /\ UNCHANGED <<objects, classifierLog, entropy, profile, zipEntries, response, req>>
  /\ idx' = nextEntry(idx, Len(zipEntries))
  /\ cur' = NoLocals
  /\ pc' = "zipLoop"
  /\ IF ok
     THEN LET row == createdRow(nextId,
                       assetData(profile.id, cur.fileName, cur.fileType, cur.fileUrl,
                                 cur.mediaData))
          IN /\ mediaAssets' = mediaAssets \cup {row}
             /\ nextId' = nextId + 1
             /\ uploadedAssets' = pushAsset(uploadedAssets, row)
             /\ UNCHANGED errors
     ELSE /\ errors' = catchFileError(errors, zipEntries[idx], "PrismaError")
          /\ UNCHANGED <<mediaAssets, nextId, uploadedAssets>>

\* res.status(201).json({...}) after the loop.
ZipRespond ==
  /\ UNCHANGED sibling
  /\ pc = "zipLoop"
  /\ idx > Len(zipEntries)
  /\ response' = [status |-> 201, body |-> zipBody(uploadedAssets, errors)]
  /\ pc' = "zipDone"
  /\ UNCHANGED <<collaborators, entropy, profile, zipLocals, cur, req>>

\* ------------------------------------------------- uploadMediaFile, by await
FileInputs ==
  {[present |-> FALSE, mimetype |-> <<"image", "/", "jpeg">>, originalname |-> A_JPG]}
  \cup {[present |-> TRUE, mimetype |-> f.mimetype, originalname |-> f.originalname] :
          f \in SingleFiles}

\* From the request to the first await of the upload: multer's filter, the
\* req.file check, the profile lookup and generateMediaKey.
UploadMediaFileStart(userId, file, description, timestamp, hash) ==
  /\ UNCHANGED sibling
  /\ Idle
  /\ req' = [handler |-> "uploadMediaFile", userId |-> userId, file |-> file,
             description |-> description]
  /\ NoZipLocals
  /\ UNCHANGED collaborators
  /\ IF file.present /\ ~fileFilter(file.mimetype)
     THEN Fail(500, "Internal server error", "fileDone")
          /\ profile' = NoProfile /\ cur' = NoLocals /\ UNCHANGED entropy
     ELSE IF ~file.present
     THEN Fail(400, "No file provided", "fileDone")
          /\ profile' = NoProfile /\ cur' = NoLocals /\ UNCHANGED entropy
     ELSE IF findProfile(userId) = {}
     THEN Fail(404, "Profile not found. Please create a profile first.", "fileDone")
          /\ profile' = NoProfile /\ cur' = NoLocals /\ UNCHANGED entropy
     ELSE LET p == CHOOSE q \in findProfile(userId) : TRUE
          IN /\ profile' = p
             /\ now' = timestamp
             /\ draws' = drawn(draws, file.originalname, timestamp, hash,
                               generateMediaKey(p.id, file.originalname, timestamp, hash))
             /\ cur' = [fileName |-> file.originalname,
                        s3Key |-> generateMediaKey(p.id, file.originalname, timestamp, hash),
                        mimeType |-> file.mimetype]
             /\ response' = NoResponse
             /\ pc' = "filePut"

\* await uploadToS3(...) settles; a rejection leaves the handler through
\* its catch block.
FileUploadToS3Returns(ok) ==
  /\ UNCHANGED sibling
  /\ pc = "filePut"
  /\ UNCHANGED <<mediaAssets, nextId, classifierLog, entropy, profile, zipLocals, req>>
  /\ IF ok
     THEN /\ objects' = putObject(objects, cur.s3Key, cur.fileName, cur.mimeType)
          /\ cur' = [fileName |-> cur.fileName, s3Key |-> cur.s3Key,
                     fileUrl |-> s3Url(cur.s3Key), fileType |-> fileTypeOf(cur.mimeType)]
          /\ pc' = "fileAnalyze"
          /\ UNCHANGED response
     ELSE /\ Fail(500, "Internal server error", "fileDone")
          /\ cur' = NoLocals
          /\ UNCHANGED objects

\* await analyzeMedia(...) settles; an exception leaves the handler through
\* its catch block.
FileAnalyzeMediaReturns(reply) ==
  /\ UNCHANGED sibling
  /\ pc = "fileAnalyze"
  /\ classifierLog' = Append(classifierLog, reply)
  /\ UNCHANGED <<stores, entropy, profile, zipLocals, req>>
  /\ LET analysis == analyzeMedia(reply)
         description == IF req.description = Undefined THEN "" ELSE req.description
     IN IF analysis.threw
        THEN /\ Fail(500, "Internal server error", "fileDone")
             /\ cur' = NoLocals
        ELSE /\ cur' = [fileName |-> cur.fileName, s3Key |-> cur.s3Key,
                        fileUrl |-> cur.fileUrl, fileType |-> cur.fileType,
                        mediaData |-> mediaDataOf(analysis.value, description)]
             /\ pc' = "fileCreate"
             /\ UNCHANGED response

\* await prisma.mediaAsset.create(...) settles and the request is answered.
FileCreateReturns(ok) ==
  /\ UNCHANGED sibling
  /\ pc = "fileCreate"
  /\ UNCHANGED <<objects, classifierLog, entropy, profile, zipLocals, req>>
  /\ cur' = NoLocals
  /\ IF ok
     THEN LET row == createdRow(nextId,
                       assetData(profile.id, cur.fileName, cur.fileType, cur.fileUrl,
                                 cur.mediaData))
          IN /\ mediaAssets' = mediaAssets \cup {row}
             /\ nextId' = nextId + 1
             /\ response' = [status |-> 201, body |-> [mediaAsset |-> row, s3Key |-> cur.s3Key]]
             /\ pc' = "fileDone"
     ELSE /\ Fail(400, "Database error", "fileDone")
          /\ UNCHANGED <<mediaAssets, nextId>>

\* ------------------------------------------------ deleteMediaAsset, by await
\* Variant: any requester passes once the owning profile exists.
notOwner_ProfileOnly(owners, userId) == owners = {}

\* !profile || profile.userId !== userId
notOwner(owners, userId) ==
  owners = {} \/ \A p \in owners : p.userId # userId

\* A delete request arrives when no upload is being handled.
NoRequestRunning == pc \in {"idle", "fileDone", "zipDone"}

\* From the request to the await of deleteFromS3: the asset lookup, the
\* ownership check and the extraction of the key from the stored URL.
DeleteMediaAssetStart(userId, mediaId) ==
  /\ UNCHANGED sibling
  /\ NoRequestRunning
  /\ req' = [handler |-> "deleteMediaAsset", userId |-> userId, mediaId |-> mediaId]
  /\ NoZipLocals
  /\ UNCHANGED <<collaborators, entropy>>
  /\ LET found == {a \in mediaAssets : a.id = mediaId}
         owners == {p \in Profiles : \E a \in found : p.id = a.profileId}
     IN IF found = {}
        THEN Fail(404, "Media not found", "delDone")
             /\ profile' = NoProfile /\ cur' = NoLocals
        ELSE IF notOwner(owners, userId)
        THEN Fail(403, "Unauthorized", "delDone")
             /\ profile' = NoProfile /\ cur' = NoLocals
        ELSE LET mediaAsset == CHOOSE a \in found : TRUE
             IN /\ profile' = CHOOSE p \in owners : TRUE
                /\ cur' = [fileName |-> mediaAsset.fileName,
                           s3Key |-> keyFromUrl(mediaAsset.fileUrl)]
                /\ response' = NoResponse
                /\ pc' = "delS3"

\* await deleteFromS3(s3Key) settles; a rejection leaves the handler through
\* its catch block, before the record is touched.
DeleteFromS3Returns(ok) ==
  /\ UNCHANGED sibling
  /\ pc = "delS3"
  /\ UNCHANGED <<mediaAssets, nextId, classifierLog, entropy, profile, zipLocals, req>>
  /\ LET deleted == deleteFromS3(objects, cur.s3Key, ok)
     IN /\ objects' = deleted.store
        /\ IF deleted.threw
           THEN /\ Fail(500, "Internal server error", "delDone")
                /\ cur' = NoLocals
           ELSE /\ pc' = "delRow"
                /\ UNCHANGED <<cur, response>>

\* await prisma.mediaAsset.delete(...) settles and the request is answered.
DeleteRowReturns(ok) ==
  /\ UNCHANGED sibling
  /\ pc = "delRow"
  /\ UNCHANGED <<objects, nextId, classifierLog, entropy, profile, zipLocals, req>>
  /\ cur' = NoLocals
  /\ IF ok
     THEN /\ mediaAssets' = {a \in mediaAssets : a.id # req.mediaId}
          /\ response' = [status |-> 200, body |-> [message |-> "Media deleted successfully"]]
          /\ pc' = "delDone"
     ELSE /\ Fail(400, "Database error", "delDone")
          /\ UNCHANGED mediaAssets

\* --------------------------------------- uploadArchive (sibling), by await
ProfileUsernames == [id \in {"p1"} |-> "ada"]

Uuids == {"v0", "v1"}

\* "Determine MIME type": the if chain of uploadArchive.
siblingMimeType(fileExt) ==
  IF fileExt \in {<<".", "j", "p", "g">>, <<".", "j", "p", "e", "g">>} THEN <<"image", "/", "jpeg">>
  ELSE IF fileExt = <<".", "p", "n", "g">> THEN <<"image", "/", "png">>
  ELSE IF fileExt = <<".", "g", "i", "f">> THEN <<"image", "/", "gif">>
  ELSE IF fileExt = <<".", "w", "e", "b", "p">> THEN <<"image", "/", "webp">>
  ELSE IF fileExt = <<".", "m", "p", "4">> THEN <<"video", "/", "mp4">>
  ELSE IF fileExt = <<".", "w", "e", "b", "m">> THEN <<"video", "/", "webm">>
  ELSE IF fileExt = <<".", "m", "p", "3">> THEN <<"audio", "/", "mpeg">>
  ELSE IF fileExt = <<".", "w", "a", "v">> THEN <<"audio", "/", "wav">>
  ELSE <<"application", "/", "octet-stream">>

\* mimeType.startsWith('image/') and so on, 'document' otherwise.
siblingFileType(mimeType) ==
  IF Len(mimeType) > 1 /\ mimeType[2] = "/" /\ mimeType[1] \in {"image", "video", "audio"}
  THEN mimeType[1]
  ELSE "document"

\* `media/${profile.username}/${crypto.randomUUID()}${fileExt}`
siblingKey(username, uuid, fileExt) ==
  <<"media", "/", username, "/", uuid>> \o fileExt

\* The data of prisma.mediaAsset.create for uploadedFiles[index], with
\* analysis = analyzedFiles[index] || {} and displayOrder: index (from 0).
siblingRow(profileId, files, analyzed, k) ==
  LET analysis == IF k <= Len(analyzed) THEN analyzed[k] ELSE [none |-> TRUE]
  IN [id |-> k, profileId |-> profileId, fileName |-> files[k].fileName,
      fileType |-> files[k].fileType, fileUrl |-> files[k].fileUrl,
      category |-> categoryOf(analysis),
      tags |-> IF "tags" \in DOMAIN analysis THEN analysis.tags ELSE <<Undefined>>,
      displayOrder |-> k - 1]

SiblingFail(statusCode, message) ==
  [sibling EXCEPT !.response = errorResponse(statusCode, message),
                  !.pc = "done", !.cur = NoLocals]

controllerVars ==
  <<objects, mediaAssets, nextId, classifierLog, now, draws, pc, profile, zipEntries,
    idx, uploadedAssets, errors, cur, response, req>>

\* From the request to the loop: multer's filter, the ZIP check, the profile
\* lookup and new AdmZip(req.file.buffer).
UploadArchiveStart(userId, file) ==
  /\ sibling.pc = "idle"
  /\ UNCHANGED controllerVars
  /\ sibling' =
       IF file.present /\ ~fileFilter(file.mimetype)
       THEN SiblingFail(500, "Internal server error")
       ELSE IF ~file.present \/ file.mimetype # <<"application", "/", "zip">>
       THEN SiblingFail(400, "Please upload a ZIP file")
       ELSE IF findProfile(userId) = {}
       THEN SiblingFail(404, "Profile not found")
       ELSE IF readZip(file).threw
       THEN SiblingFail(500, "Internal server error")
       ELSE [sibling EXCEPT !.pc = "loop", !.zipEntries = readZip(file).entries, !.idx = 1,
                            !.profile = CHOOSE p \in findProfile(userId) : TRUE]

\* One loop iteration up to its await: directories are skipped, every other
\* entry gets a content type and a key and its upload is issued.
UploadArchiveNextEntry(uuid) ==
  /\ sibling.pc = "loop"
  /\ sibling.idx <= Len(sibling.zipEntries)
  /\ UNCHANGED controllerVars
  /\ LET entry == sibling.zipEntries[sibling.idx]
         fileExt == toLowerCase(extname(entry))
     IN sibling' =
          IF isDirectory(entry)
          THEN [sibling EXCEPT !.idx = sibling.idx + 1]
          ELSE [sibling EXCEPT
                  !.pc = "put",
                  !.cur = [fileName |-> entry,
                           fileKey |-> siblingKey(ProfileUsernames[sibling.profile.id], uuid, fileExt),
                           mimeType |-> siblingMimeType(fileExt)]]

\* await uploadToS3(...) settles; there is no try around it inside the loop,
\* so a rejection ends the request.
UploadArchivePutReturns(ok) ==
  /\ sibling.pc = "put"
  /\ UNCHANGED controllerVars
  /\ sibling' =
       IF ok
       THEN [sibling EXCEPT
               !.objects = putObject(sibling.objects, sibling.cur.fileKey,
                                     sibling.cur.fileName, sibling.cur.mimeType),
               !.uploadedFiles = Append(sibling.uploadedFiles,
                                        [fileName |-> sibling.cur.fileName,
                                         fileType |-> siblingFileType(sibling.cur.mimeType),
                                         fileUrl |-> s3Url(sibling.cur.fileKey)]),
               !.idx = sibling.idx + 1,
               !.cur = NoLocals,
               !.pc = "loop"]
       ELSE SiblingFail(500, "Internal server error")

\* After the loop: await analyzeMedia(fileDescriptions, ...) settles.
UploadArchiveAnalyzeReturns(reply) ==
  /\ sibling.pc = "loop"
  /\ sibling.idx > Len(sibling.zipEntries)
  /\ UNCHANGED controllerVars
  /\ sibling' =
       IF analyzeMedia(reply).threw
       THEN SiblingFail(500, "Internal server error")
       ELSE [sibling EXCEPT !.analyzedFiles = analyzeMedia(reply).value, !.pc = "create"]

\* await Promise.all(uploadedFiles.map(... create ...)) settles: the rows of
\* the positions in created were stored; the request succeeds when that is
\* every position.
UploadArchiveCreateReturns(created) ==
  /\ sibling.pc = "create"
  /\ UNCHANGED controllerVars
  /\ LET n == Len(sibling.uploadedFiles)
         row(k) == siblingRow(sibling.profile.id, sibling.uploadedFiles, sibling.analyzedFiles, k)
     IN sibling' =
          IF created = 1..n
          THEN [sibling EXCEPT
                  !.mediaAssets = {row(k) : k \in 1..n},
                  !.response = [status |-> 200, body |-> [mediaAssets |-> [k \in 1..n |-> row(k)]]],
                  !.pc = "done"]
          ELSE [sibling EXCEPT
                  !.mediaAssets = {row(k) : k \in created},
                  !.response = errorResponse(400, "Database error"),
                  !.pc = "done"]

\* ----------------------------------------------------------- specification
Next ==
  \/ \E u \in Users, f \in ZipFiles : UploadZipArchiveStart(u, f)
  \/ \E t \in Clock, h \in Hashes : ZipNextEntry(t, h)
  \/ \E ok \in BOOLEAN : ZipUploadToS3Returns(ok)
  \/ \E r \in ClassifierReplies : ZipAnalyzeMediaReturns(r)
  \/ \E ok \in BOOLEAN : ZipCreateReturns(ok)
  \/ ZipRespond
  \/ \E u \in Users, f \in FileInputs, d \in Descriptions, t \in Clock, h \in Hashes :
       UploadMediaFileStart(u, f, d, t, h)
  \/ \E ok \in BOOLEAN : FileUploadToS3Returns(ok)
  \/ \E r \in ClassifierReplies : FileAnalyzeMediaReturns(r)
  \/ \E ok \in BOOLEAN : FileCreateReturns(ok)

Spec == Init /\ [][Next]_vars

\* The same upload handlers, fed with the inputs that run over the whole
\* type tables instead of the archives of Archives.
NextWide ==
  \/ \E u \in Users, f \in WideZipFiles \cup {g \in ZipFiles : g.entries = <<>>} :
       UploadZipArchiveStart(u, f)
  \/ \E t \in Clock, h \in Hashes : ZipNextEntry(t, h)
  \/ \E ok \in BOOLEAN : ZipUploadToS3Returns(ok)
  \/ \E r \in ClassifierReplies : ZipAnalyzeMediaReturns(r)
  \/ \E ok \in BOOLEAN : ZipCreateReturns(ok)
  \/ ZipRespond
  \/ \E u \in Users, f \in FileInputs \cup {[present |-> TRUE, mimetype |-> g.mimetype,
                                                originalname |-> g.originalname] :
                                                 g \in WideSingleFiles},
        d \in Descriptions, t \in Clock, h \in Hashes :
       UploadMediaFileStart(u, f, d, t, h)
  \/ \E ok \in BOOLEAN : FileUploadToS3Returns(ok)
  \/ \E r \in ClassifierReplies : FileAnalyzeMediaReturns(r)
  \/ \E ok \in BOOLEAN : FileCreateReturns(ok)

SpecWide == Init /\ [][NextWide]_vars

\* A single-file upload followed by a delete request.
NextDelete ==
  \/ \E u \in Users, f \in FileInputs, d \in Descriptions, t \in Clock, h \in Hashes :
       UploadMediaFileStart(u, f, d, t, h)
  \/ \E ok \in BOOLEAN : FileUploadToS3Returns(ok)
  \/ \E r \in ClassifierReplies : FileAnalyzeMediaReturns(r)
  \/ \E ok \in BOOLEAN : FileCreateReturns(ok)
  \/ \E u \in Users, mediaId \in 1..nextId : DeleteMediaAssetStart(u, mediaId)
  \/ \E ok \in BOOLEAN : DeleteFromS3Returns(ok)
  \/ \E ok \in BOOLEAN : DeleteRowReturns(ok)

SpecDelete == Init /\ [][NextDelete]_vars

\* Archives for the two archive handlers: supported entries only, a mix with
\* an unsupported entry, a folder, a name without extension, and extensions
\* that only one of the two tables holds.
SiblingArchives ==
  {<<>>,
   <<A_JPG, R_PDF>>,
   <<A_JPG, C_EXE>>,
   <<D_DIR, D_A_JPG>>,
   <<N_NOEXT>>,
   <<<<"f", ".", "m", "o", "v">>>>,
   <<<<"f", ".", "o", "g", "g">>>>}

SiblingZipFiles ==
  {g \in ZipFiles : g.entries = <<>>}
    \cup {[present |-> TRUE, mimetype |-> <<"application", "/", "zip">>, readable |-> TRUE,
           entries |-> z] : z \in SiblingArchives}

\* One archive request handled by uploadZipArchive; once it is answered the
\* same request is handled by uploadArchive against stores of its own.
NextSiblings ==
  \/ \E u \in Users, f \in SiblingZipFiles : UploadZipArchiveStart(u, f)
  \/ \E t \in Clock, h \in Hashes : ZipNextEntry(t, h)
  \/ \E ok \in BOOLEAN : ZipUploadToS3Returns(ok)
  \/ \E r \in ClassifierReplies : ZipAnalyzeMediaReturns(r)
  \/ \E ok \in BOOLEAN : ZipCreateReturns(ok)
  \/ ZipRespond
  \/ pc = "zipDone" /\ UploadArchiveStart(req.userId, req.file)
  \/ \E v \in Uuids : UploadArchiveNextEntry(v)
  \/ \E ok \in BOOLEAN : UploadArchivePutReturns(ok)
  \/ \E r \in ClassifierReplies : UploadArchiveAnalyzeReturns(r)
  \/ \E created \in SUBSET (1..Len(sibling.uploadedFiles)) : UploadArchiveCreateReturns(created)

SpecSiblings == Init /\ [][NextSiblings]_vars

\* ------------------------------------------------- vocabulary of the claims
\* The request is a ZIP upload that got as far as reading its archive.
ZipAccepted ==
  /\ req.handler = "uploadZipArchive"
  /\ req.file.present
  /\ fileFilter(req.file.mimetype)
  /\ findProfile(req.userId) # {}
  /\ req.file.readable

ZipAnswered == ZipAccepted /\ pc = "zipDone"

FileNamesSeen ==
  {entryBaseName(e) : e \in EntryNames}
    \cup {uploadedAssets[k].fileName : k \in 1..Len(uploadedAssets)}
    \cup {errors[k].fileName : k \in 1..Len(errors)}

\* Non-directory entries among the first m entries that carry base name n.
EntriesNamed(n, m) ==
  Cardinality({i \in 1..m : ~isDirectory(zipEntries[i]) /\ entryBaseName(zipEntries[i]) = n})

AssetsNamed(n) ==
  Cardinality({k \in 1..Len(uploadedAssets) : uploadedAssets[k].fileName = n})

ErrorsNamed(n) ==
  Cardinality({k \in 1..Len(errors) : errors[k].fileName = n})

NonDirectoryCount(z) ==
  Cardinality({i \in 1..Len(z) : ~isDirectory(z[i])})

UnsupportedEntry(e) ==
  ~isDirectory(e) /\ ~isSupportedType(toLowerCase(extname(entryBaseName(e))))

\* The failure list as the response carries it.
BodyErrors ==
  IF "errors" \in DOMAIN response.body THEN response.body.errors ELSE <<>>

EmptyTagsJson == <<"[", "]">>

\* ------------------------------------------------------------------ claims
\* C1: every non-directory entry of an accepted archive produces exactly one
\* outcome, an element of uploadedAssets or an element of errors, and a
\* directory entry produces none: after the loop has passed m entries, the
\* outcomes carrying a name are as many as the non-directory entries with
\* that name among the m, and the answer returns exactly those outcomes.
C1_OneOutcomePerEntry ==
  (ZipAccepted /\ pc \in {"zipLoop", "zipDone"}) =>
    /\ \A n \in FileNamesSeen :
         AssetsNamed(n) + ErrorsNamed(n) = EntriesNamed(n, idx - 1)
    /\ pc = "zipDone" =>
         /\ idx = Len(zipEntries) + 1
         /\ response.status = 201
         /\ response.body.uploadedAssets = uploadedAssets
         /\ BodyErrors = errors

C1_Witness ==
  /\ ZipAnswered
  /\ Len(zipEntries) = 2
  /\ \E i \in 1..2 : isDirectory(zipEntries[i])
  /\ Len(uploadedAssets) + Len(errors) = 1

\* C2: a failure of type resolution or of the upload of one entry is recorded
\* for that entry, the loop goes on with the next entry with the request
\* still unanswered, and the answer given after the last entry is a success.
C2_EntryFailureIsolated ==
  [][/\ (pc \in {"zipLoop", "zipPut"} /\ errors' # errors) =>
          /\ Len(errors') = Len(errors) + 1
          /\ SubSeq(errors', 1, Len(errors)) = errors
          /\ errors'[Len(errors')].fileName = entryBaseName(zipEntries[idx])
          /\ errors'[Len(errors')].error \in {"Unsupported file type", "S3Error"}
          /\ idx' = idx + 1
          /\ pc' = "zipLoop"
          /\ response' = NoResponse
     /\ (pc = "zipLoop" /\ pc' = "zipDone") =>
          /\ idx = Len(zipEntries) + 1
          /\ response'.status = 201]_vars

C2_Witness ==
  /\ ZipAnswered
  /\ response.status = 201
  /\ Len(zipEntries) = 2
  /\ Len(errors) = 1
  /\ errors[1].fileName = entryBaseName(zipEntries[1])
  /\ errors[1].error = "S3Error"
  /\ Len(uploadedAssets) = 1
  /\ uploadedAssets[1].fileName = entryBaseName(zipEntries[2])

\* C3: in a single-file upload whose Object Store put succeeded, a Content
\* Classifier call that throws still ends in a success answer, with exactly
\* one MediaAsset persisted, of category "Uncategorized" and with empty tags.
C3_ClassifierFailureNotFatal ==
  (/\ req.handler = "uploadMediaFile"
   /\ pc = "fileDone"
   /\ Len(classifierLog) = 1
   /\ analyzeMedia(classifierLog[1]).threw) =>
    /\ response.status = 201
    /\ Cardinality(mediaAssets) = 1
    /\ \A a \in mediaAssets : a.category = "Uncategorized" /\ a.tags = EmptyTagsJson

\* C4: in a ZIP upload, when the Record Store accepts every row, each entry
\* whose put succeeded (each entry the classifier was called for) has a
\* persisted MediaAsset and is counted as successful, and the asset of an
\* entry whose classifier call threw has category "Uncategorized" and empty
\* tags.
C4_ZipClassifierFailureNotFatal ==
  (/\ ZipAnswered
   /\ \A k \in 1..Len(errors) : errors[k].error # "PrismaError") =>
    /\ Len(uploadedAssets) = Len(classifierLog)
    /\ \A i \in 1..Len(classifierLog) :
         analyzeMedia(classifierLog[i]).threw =>
           /\ uploadedAssets[i].category = "Uncategorized"
           /\ uploadedAssets[i].tags = EmptyTagsJson
           /\ uploadedAssets[i] \in mediaAssets

\* The content types type resolution can produce: the allow-list of the
\* request filter and the values of the extension table.
ResolvedTypes == allowedTypes \cup {mimeTypes[e] : e \in DOMAIN mimeTypes}

\* C5: every MediaAsset of the Record Store belongs to an item whose type
\* was resolved and whose put returned: its fileUrl is the URL of an object
\* of the Object Store, that object has a resolved content type, the asset's
\* kind is the kind of that content type, and an asset of a ZIP upload has a
\* supported extension.
C5_AssetOnlyAfterValidationAndPut ==
  \A a \in mediaAssets :
    /\ \E o \in objects :
         /\ a.fileUrl = s3Url(o.key)
         /\ o.contentType \in ResolvedTypes
         /\ a.fileType = fileTypeOf(o.contentType)
    /\ req.handler = "uploadZipArchive" =>
         isSupportedType(toLowerCase(extname(a.fileName)))

C5_Witness ==
  /\ ZipAnswered
  /\ Cardinality(mediaAssets) = 1
  /\ Len(errors) = 1
  /\ errors[1].error = "S3Error"

\* C6: the summary of the ZIP answer satisfies successful + failed = total,
\* and total is the number of non-directory entries of the archive.
C6_SummaryCountsEveryEntry ==
  (ZipAnswered /\ response.status = 201) =>
    /\ response.body.summary.successful + response.body.summary.failed
         = response.body.summary.total
    /\ response.body.summary.total = NonDirectoryCount(req.file.entries)
    /\ response.body.summary.successful = Len(response.body.uploadedAssets)
    /\ response.body.summary.failed = Len(BodyErrors)

C6_Witness ==
  /\ ZipAnswered
  /\ response.status = 201
  /\ \E i \in 1..Len(req.file.entries) : isDirectory(req.file.entries[i])
  /\ response.body.summary.total = 1
  /\ response.body.summary.failed = 1

C8_AllSupportedAllSucceed ==
  (/\ ZipAnswered
   /\ Len(zipEntries) > 0
   /\ \A i \in 1..Len(zipEntries) :
        ~isDirectory(zipEntries[i]) /\ ~UnsupportedEntry(zipEntries[i])
   /\ \A k \in 1..Len(errors) : errors[k].error \notin {"S3Error", "PrismaError"}) =>
    /\ response.status = 201
    /\ response.body.summary.successful = response.body.summary.total
    /\ response.body.summary.failed = 0
    /\ Cardinality(mediaAssets) = Len(zipEntries)

\* C9: when the bytes of a ZIP upload cannot be read as an archive, the
\* request is answered with one request-level error, there is no per-entry
\* outcome, nothing is put in the Object Store, the classifier is not called
\* and no MediaAsset is persisted.
C9_UnreadableArchiveIsRequestError ==
  (req.handler = "uploadZipArchive" /\ req.file.present /\ ~req.file.readable) =>
    /\ pc = "zipDone"
    /\ response.status >= 400
    /\ DOMAIN response = {"status", "error"}
    /\ uploadedAssets = <<>>
    /\ errors = <<>>
    /\ objects = {}
    /\ mediaAssets = {}
    /\ classifierLog = <<>>

C9_Witness ==
  /\ req.handler = "uploadZipArchive"
  /\ req.file.present
  /\ fileFilter(req.file.mimetype)
  /\ findProfile(req.userId) # {}
  /\ ~req.file.readable
  /\ pc = "zipDone"
  /\ response.status = 500

\* C10 as stated: an accepted ZIP upload is always answered with a success
\* that carries the failure list, whether no, some or all entries failed.
C10_SuccessAlwaysEmbedsFailureList ==
  ZipAnswered =>
    /\ response.status = 201
    /\ "errors" \in DOMAIN response.body
    /\ BodyErrors = errors

\* C10 amended: an accepted ZIP upload is always answered with a success
\* whose summary counts the failures; the answer carries the failure list
\* when at least one entry failed and has no errors member when none did.
C10_SuccessEmbedsNonEmptyFailureList ==
  ZipAnswered =>
    /\ response.status = 201
    /\ response.body.summary.failed = Len(errors)
    /\ Len(errors) > 0 => ("errors" \in DOMAIN response.body /\ response.body.errors = errors)
    /\ Len(errors) = 0 => "errors" \notin DOMAIN response.body

C10_Witness ==
  /\ ZipAnswered
  /\ response.status = 201
  /\ Len(zipEntries) = 2
  /\ Len(uploadedAssets) = 0
  /\ "errors" \in DOMAIN response.body
  /\ Len(response.body.errors) = 2

\* ----------------------------------------------------------- type resolution
LowerToUpper ==
  [c \in {Letters[k] : k \in 1..Len(Letters)} |->
     Capitals[CHOOSE k \in 1..Len(Letters) : Letters[k] = c]]

toUpperCase(s) ==
  [i \in 1..Len(s) |-> IF s[i] \in DOMAIN LowerToUpper THEN LowerToUpper[s[i]] ELSE s[i]]

\* The last k characters of a name.
Suffix(n, k) == SubSeq(n, Len(n) - k + 1, Len(n))

\* The name is a non-empty stem followed by the extension e in any case.
SpelledAs(n, e) ==
  /\ Len(n) > Len(e)
  /\ toUpperCase(Suffix(n, Len(e))) = toUpperCase(e)

UpperCaseExts == {toUpperCase(e) : e \in DOMAIN mimeTypes}

HasSupportedSpelling(n) ==
  \E k \in {Len(e) : e \in DOMAIN mimeTypes} :
     Len(n) > k /\ toUpperCase(Suffix(n, k)) \in UpperCaseExts

\* The media kind that goes with the first token of a content type.
KindOfPrefix(p) ==
  CASE p = "image" -> "image"
    [] p = "video" -> "video"
    [] p = "audio" -> "audio"
    [] OTHER -> "document"

\* C11: resolving the type of an archive entry is case-insensitive on the
\* extension and total over the table.  An entry whose name ends in an
\* extension of the supported lists, in any case, is uploaded under the
\* content type the table gives that extension and gets the kind of that
\* content type's prefix; an entry with an unknown or no extension ends as an
\* 'Unsupported file type' failure and as nothing else, and no entry with a
\* supported extension is reported unsupported.
C11_TypeResolutionCaseInsensitiveAndTotal ==
  ZipAccepted =>
    /\ pc \in {"zipPut", "zipAnalyze", "zipCreate"} =>
         \E e \in DOMAIN mimeTypes :
            /\ SpelledAs(cur.fileName, e)
            /\ pc = "zipPut" => cur.mimeType = mimeTypes[e]
            /\ pc # "zipPut" => cur.fileType = KindOfPrefix(mimeTypes[e][1])
            /\ pc # "zipPut" =>
                 \E o \in objects : o.key = cur.s3Key /\ o.contentType = mimeTypes[e]
    /\ \A k \in 1..Len(errors) :
         errors[k].error = "Unsupported file type" <=> ~HasSupportedSpelling(errors[k].fileName)
    /\ \A i \in 1..Len(zipEntries) :
         (i < idx /\ ~isDirectory(zipEntries[i])
            /\ ~HasSupportedSpelling(entryBaseName(zipEntries[i])))
           => \E k \in 1..Len(errors) : errors[k].fileName = entryBaseName(zipEntries[i])

\* An upper-case .M4A entry has been put as audio/mp4 and typed audio.
C11_Witness ==
  /\ ZipAccepted
  /\ pc = "zipAnalyze"
  /\ cur.fileName = <<"f", ".", "M", "4", "A">>
  /\ cur.fileType = "audio"
  /\ \E o \in objects : o.contentType = <<"audio", "/", "mp4">>

MediaKinds == {"image", "video", "audio", "document"}

\* C12: every MediaAsset persisted by the single-file upload or by the
\* archive upload has a media kind that is one of image, video, audio and
\* document, whatever allowed content type was declared and whatever
\* supported extension the entry has; the same holds for the rows the
\* handlers hand back.
C12_PersistedKindIsOneOfFour ==
  /\ \A a \in mediaAssets : a.fileType \in MediaKinds
  /\ \A k \in 1..Len(uploadedAssets) : uploadedAssets[k].fileType \in MediaKinds
  /\ pc \in {"zipAnalyze", "zipCreate", "fileAnalyze", "fileCreate"} => cur.fileType \in MediaKinds

\* A file declared application/zip went through the single-file upload and
\* was persisted as a document.
C12_Witness ==
  /\ pc = "fileDone"
  /\ req.handler = "uploadMediaFile"
  /\ req.file.mimetype = <<"application", "/", "zip">>
  /\ \E a \in mediaAssets : a.fileType = "document"

FileUploaded ==
  /\ req.handler = "uploadMediaFile"
  /\ pc = "fileDone"
  /\ response.status = 201

\* The URL is the one uploadToS3 returns for the key of object o.
UrlOfObject(url, o) ==
  /\ Len(url) = Len(o.key) + 4
  /\ url[1] = "https://"
  /\ url[2] = BUCKET_NAME
  /\ url[3] = ".s3.amazonaws.com"
  /\ url[4] = "/"
  /\ SubSeq(url, 5, Len(url)) = o.key

\* C13: a successful single-file upload answers with a MediaAsset whose kind
\* follows from the prefix of the declared content type (image, video, audio,
\* anything else document) and whose fileUrl is the URL of the object the
\* put stored for this file; that MediaAsset is the row persisted.
C13_SingleUploadKindFromDeclaredType ==
  FileUploaded =>
    LET a == response.body.mediaAsset
    IN /\ a.fileType = KindOfPrefix(req.file.mimetype[1])
       /\ a \in mediaAssets
       /\ \E o \in objects :
            /\ UrlOfObject(a.fileUrl, o)
            /\ o.key = response.body.s3Key
            /\ o.body = req.file.originalname
            /\ o.contentType = req.file.mimetype

\* A file declared audio/ogg was uploaded and answered as an audio asset.
C13_Witness ==
  /\ FileUploaded
  /\ req.file.mimetype = <<"audio", "/", "ogg">>
  /\ response.body.mediaAsset.fileType = "audio"
  /\ \E o \in objects : UrlOfObject(response.body.mediaAsset.fileUrl, o)

\* -------------------------------------------------------------- storage keys
\* The extension of a file name without its ".", empty when it has none.
OriginalExtension(n) ==
  IF extname(n) = <<>> THEN <<>> ELSE Tail(extname(n))

KeyGenerated == pc \in {"zipPut", "filePut"}

\* C14: the key generateMediaKey makes for an owner and a file name is
\* media/{owner}/{uniqueness-token}.{ext}, and {ext} is the original
\* extension of the name in lower case.
C14_KeyEndsInLowerCasedExtension ==
  KeyGenerated =>
    LET k == cur.s3Key
    IN /\ Len(k) >= 8
       /\ SubSeq(k, 1, 4) = <<"media", "/", profile.id, "/">>
       /\ k[8] = "."
       /\ SubSeq(k, 9, Len(k)) = toLowerCase(OriginalExtension(cur.fileName))

KeysPairwiseDifferent ==
  \A i, j \in 1..Len(draws) : i # j => draws[i].key # draws[j].key

\* C15 as stated: any two keys generated for the same owner are different.
C15_KeysNeverCollide == KeysPairwiseDifferent

\* C15: two keys generated for the same owner are equal only if they were
\* made of the same timestamp, the same random hash and the same extension;
\* and as long as the keys of a request are pairwise different, every asset it
\* created still has its own object in the store.
C15_KeysDifferUnlessSameDraw ==
  /\ \A i, j \in 1..Len(draws) :
       draws[i].key = draws[j].key =>
         /\ draws[i].timestamp = draws[j].timestamp
         /\ draws[i].hash = draws[j].hash
         /\ draws[i].extension = draws[j].extension
  /\ KeysPairwiseDifferent =>
       \A k \in 1..Len(uploadedAssets) :
          \E o \in objects :
             /\ UrlOfObject(uploadedAssets[k].fileUrl, o)
             /\ entryBaseName(o.body) = uploadedAssets[k].fileName

\* Two entries with the same base name were uploaded in the same millisecond
\* under different hashes and each has its object.
C15_Witness ==
  /\ ZipAnswered
  /\ Len(uploadedAssets) = 2
  /\ uploadedAssets[1].fileName = uploadedAssets[2].fileName
  /\ Len(draws) = 2
  /\ draws[1].timestamp = draws[2].timestamp
  /\ draws[1].hash # draws[2].hash
  /\ Cardinality(objects) = 2

\* ---------------------------------------------------------------- analyzeMedia
\* The reply of the classifier call that settled last.
LastReply == classifierLog[Len(classifierLog)]

\* analyzeMedia has returned to the handler without raising.
AnalyzeReturned == pc \in {"zipCreate", "fileCreate"}

\* C16: analyzeMedia does not raise when the external service answers with
\* malformed or missing JSON; it returns the empty list.
C16_MalformedReplyGivesEmptyList ==
  \A k \in 1..Len(classifierLog) :
     classifierLog[k].kind \in {"badjson", "nontext"} =>
       /\ ~analyzeMedia(classifierLog[k]).threw
       /\ analyzeMedia(classifierLog[k]).value = <<>>

PicksInEntryOrder(f, list) ==
  /\ \A k \in 1..Len(list) :
       /\ ~isDirectory(zipEntries[f[k]])
       /\ entryBaseName(zipEntries[f[k]]) = list[k].fileName
  /\ \A k, l \in 1..Len(list) : k < l => f[k] < f[l]

\* C18: the result of an archive upload keeps the order of the archive: the
\* successful assets stand in the relative order of their entries, and so do
\* the failures, no entry standing behind both an asset and a failure; the
\* answer returns the two lists in that order.
C18_ResultKeepsEntryOrder ==
  ZipAccepted =>
    /\ \E fa \in [1..Len(uploadedAssets) -> 1..Len(zipEntries)],
          fe \in [1..Len(errors) -> 1..Len(zipEntries)] :
         /\ PicksInEntryOrder(fa, uploadedAssets)
         /\ PicksInEntryOrder(fe, errors)
         /\ \A k \in 1..Len(uploadedAssets), l \in 1..Len(errors) : fa[k] # fe[l]
    /\ (pc = "zipDone" /\ response.status = 201) =>
         /\ response.body.uploadedAssets = uploadedAssets
         /\ BodyErrors = errors

\* Both entries of [r.pdf, a.JPG] succeeded and the answer lists r.pdf first.
C18_Witness ==
  /\ ZipAnswered
  /\ zipEntries = <<R_PDF, A_JPG>>
  /\ Len(response.body.uploadedAssets) = 2
  /\ response.body.uploadedAssets[1].fileName = R_PDF
  /\ response.body.uploadedAssets[2].fileName = A_JPG

\* ---------------------------------------------------------- classifier calls
\* C20: within one upload request the Content Classifier is called at most
\* once, for the single file or for the whole set of uploaded entries of an
\* archive, however many entries the archive has.
C20_ClassifierCalledAtMostOncePerRequest ==
  req.handler \in {"uploadMediaFile", "uploadZipArchive"} => Len(classifierLog) <= 1

\* ------------------------------------------------------------------- delete
\* The record the delete request names is in the Record Store.
RecordPresent == \E a \in mediaAssets : a.id = req.mediaId

\* C19: when the Object Store fails the delete that deleteMediaAsset issued,
\* the request is answered with an error and the MediaAsset record stays in
\* the Record Store; the handler ends there.
C19_FailedObjectDeleteKeepsRecord ==
  [][DeleteFromS3Returns(FALSE) =>
       /\ pc' = "delDone"
       /\ response'.status >= 400
       /\ mediaAssets' = mediaAssets
       /\ RecordPresent']_vars

\* The owner's delete request was answered 500 after deleteFromS3 rejected,
\* and the record is still there.
C19_Witness ==
  /\ req.handler = "deleteMediaAsset"
  /\ pc = "delDone"
  /\ response.status = 500
  /\ RecordPresent

\* ------------------------------------------------- batch order of an archive
\* The upload of entry i of the archive has settled, or was never due.
UploadSettled(i) ==
  \/ isDirectory(zipEntries[i])
  \/ ~HasSupportedSpelling(entryBaseName(zipEntries[i]))
  \/ i < idx
  \/ i = idx /\ pc \in {"zipAnalyze", "zipCreate"}

\* C21: in an archive upload the Content Classifier is not called and no
\* MediaAsset is created before the Object Store upload of every
\* non-directory entry has settled, with success or with failure.
C21_ClassifyAndCreateAfterAllUploads ==
  (ZipAccepted /\ (Len(classifierLog) > 0 \/ mediaAssets # {})) =>
    \A i \in 1..Len(zipEntries) : UploadSettled(i)

\* The row a step has added to the Record Store.
NewRows == mediaAssets' \ mediaAssets

\* The classifier reply has no entry for the item, or an entry without a
\* category.
NoUsableEntry(reply) ==
  \/ reply.kind = "nontext"
  \/ reply.kind = "json" /\ Len(reply.value) = 0
  \/ reply.kind = "json" /\ Len(reply.value) > 0 /\ "category" \notin DOMAIN reply.value[1]

\* C22: when the classifier result has no entry for an uploaded item, or a
\* malformed one that lacks the category, the MediaAsset persisted for the
\* item has category "Uncategorized" and empty tags.
C22_MissingOrMalformedEntryFallsBack ==
  [][(pc \in {"zipCreate", "fileCreate"} /\ NoUsableEntry(LastReply)) =>
       \A a \in NewRows : a.category = "Uncategorized" /\ a.tags = EmptyTagsJson]_vars

\* C23: every MediaAsset persisted by an archive upload carries a display
\* order, and of two assets of one request the one of the earlier entry has
\* the smaller display order.
C23_DisplayOrderFollowsEntryOrder ==
  ZipAccepted =>
    /\ \A k \in 1..Len(uploadedAssets) : "displayOrder" \in DOMAIN uploadedAssets[k]
    /\ \A k, l \in 1..Len(uploadedAssets) :
         k < l => uploadedAssets[k].displayOrder < uploadedAssets[l].displayOrder

\* ------------------------------------------------------------ orphan objects
\* The item in flight has been put and waits for the classifier or for the
\* Record Store.
AfterPut == pc \in {"zipAnalyze", "zipCreate", "fileAnalyze", "fileCreate"}

\* C24: the upload handlers never remove an object, and when a step after a
\* successful put ends without a new MediaAsset (the classifier raised, the
\* Record Store refused the row) the object put for the item is still in the
\* Object Store and no MediaAsset refers to it.
C24_FailureAfterPutLeavesOrphan ==
  [][/\ \A o \in objects : \E n \in objects' : n.key = o.key
     /\ (AfterPut /\ mediaAssets' = mediaAssets) =>
          \E o \in objects' :
             /\ o.key = cur.s3Key
             /\ \A a \in mediaAssets' : ~UrlOfObject(a.fileUrl, o)]_vars

\* The only entry of an archive was put, the Record Store refused its row,
\* and the answer leaves one object and no MediaAsset behind.
C24_Witness ==
  /\ ZipAnswered
  /\ Len(errors) = 1
  /\ errors[1].error = "PrismaError"
  /\ Cardinality(objects) = 1
  /\ mediaAssets = {}

\* ------------------------------------------------------- sequential entries
\* Entries whose upload was started and that have no final outcome yet: keys
\* generated, less the assets and the failures of entries that got a key.
EntriesInFlight ==
  Len(draws)
    - Len(uploadedAssets)
    - Cardinality({k \in 1..Len(errors) : errors[k].error # "Unsupported file type"})

\* C25: uploadZipArchive handles the entries strictly one after the other: at
\* most one entry is in flight at any time, and while an entry is in flight
\* every non-directory entry before it has reached its final outcome, a
\* persisted asset or a recorded failure.
C25_OneEntryInFlight ==
  ZipAccepted =>
    /\ EntriesInFlight \in {0, 1}
    /\ EntriesInFlight = 1 <=> pc \in {"zipPut", "zipAnalyze", "zipCreate"}
    /\ EntriesInFlight = 1 =>
         Len(uploadedAssets) + Len(errors) = NonDirectoryCount(SubSeq(zipEntries, 1, idx - 1))

\* The upload of the second entry is under way and the first entry already
\* has its asset.
C25_Witness ==
  /\ ZipAccepted
  /\ pc = "zipPut"
  /\ idx = 2
  /\ Len(uploadedAssets) = 1
  /\ ~isDirectory(zipEntries[1])

\* --------------------------------------------------------- unsupported entries
\* Entries among the first m of the archive that are files with a supported
\* extension.
SupportedAmong(m) ==
  Cardinality({i \in 1..m : /\ i <= Len(zipEntries)
                            /\ ~isDirectory(zipEntries[i])
                            /\ HasSupportedSpelling(entryBaseName(zipEntries[i]))})

\* C26: an archive entry of an unsupported type leaves the Object Store and
\* the Record Store as they are: no object and no record belongs to such an
\* entry, and keys are generated and the classifier is called for supported
\* entries only.
C26_UnsupportedEntryTouchesNoStore ==
  ZipAccepted =>
    /\ \A o \in objects : HasSupportedSpelling(entryBaseName(o.body))
    /\ \A a \in mediaAssets : HasSupportedSpelling(a.fileName)
    /\ Cardinality(objects) <= SupportedAmong(idx)
    /\ Len(draws) <= SupportedAmong(idx)
    /\ Len(classifierLog) <= SupportedAmong(idx)

\* An archive of two unsupported entries was answered with two failures and
\* nothing was put, classified or recorded.
C26_Witness ==
  /\ ZipAnswered
  /\ Len(errors) = 2
  /\ \A k \in 1..2 : errors[k].error = "Unsupported file type"
  /\ objects = {}
  /\ mediaAssets = {}
  /\ classifierLog = <<>>
  /\ draws = <<>>

\* The delete request names a record, and a is that record.
Targeted(a) == a \in mediaAssets /\ a.id = req.mediaId

\* The key generateMediaKey made for the upload behind the URL.
UploadKeysOf(url) ==
  {draws[k].key : k \in {i \in 1..Len(draws) : UrlOfObject(url, [key |-> draws[i].key])}}

\* C27: the key deleteMediaAsset takes from the stored fileUrl and passes to
\* deleteFromS3 is the key the upload stored the object under, and a
\* successful delete leaves no object under that key.
C27_DeleteUsesTheUploadKey ==
  req.handler = "deleteMediaAsset" =>
    /\ pc \in {"delS3", "delRow"} =>
         \A a \in mediaAssets : Targeted(a) => cur.s3Key \in UploadKeysOf(a.fileUrl)
    /\ (pc = "delDone" /\ response.status = 200) =>
         \A k \in 1..Len(draws) : \A o \in objects : o.key # draws[k].key

OwnsTarget(userId, mediaId, rows) ==
  \E a \in rows : /\ a.id = mediaId
                  /\ \E p \in Profiles : p.id = a.profileId /\ p.userId = userId

\* C29: deleteMediaAsset removes a record only for the user whose profile
\* owns it.  A request for an unknown id is answered 404 and a request of any
\* other user 403, at once and with both stores unchanged; every record that
\* a delete request removes is the one it names and is owned by the
\* requester.
C29_OnlyTheOwnerDeletes ==
  [][/\ (req'.handler = "deleteMediaAsset" /\ NoRequestRunning) =>
          /\ objects' = objects
          /\ mediaAssets' = mediaAssets
          /\ (\A a \in mediaAssets : a.id # req'.mediaId) =>
               pc' = "delDone" /\ response'.status = 404
          /\ ((\E a \in mediaAssets : a.id = req'.mediaId)
                /\ ~OwnsTarget(req'.userId, req'.mediaId, mediaAssets)) =>
               pc' = "delDone" /\ response'.status = 403
     /\ (req.handler = "deleteMediaAsset" /\ ~NoRequestRunning) =>
          /\ OwnsTarget(req.userId, req.mediaId, mediaAssets)
          /\ \A a \in mediaAssets \ mediaAssets' : a.id = req.mediaId]_vars

\* User u2, who owns no profile, asked to delete the record of u1 and was
\* answered 403; the record and its object are still there.
C29_Witness ==
  /\ req.handler = "deleteMediaAsset"
  /\ req.userId = "u2"
  /\ pc = "delDone"
  /\ response.status = 403
  /\ \E a \in mediaAssets : a.id = req.mediaId /\ \E o \in objects : UrlOfObject(a.fileUrl, o)

\* ------------------------------------------------------- sibling agreement
\* Both handlers have answered the same archive request with success and no
\* collaborator failed on the way.
BothSucceeded ==
  /\ ZipAnswered
  /\ response.status = 201
  /\ \A k \in 1..Len(errors) : errors[k].error = "Unsupported file type"
  /\ sibling.pc = "done"
  /\ sibling.response.status = 200

\* C30: for the same archive and collaborators that never fail, uploadZipArchive
\* and uploadArchive put the same number of objects and persist MediaAssets
\* for the same entries with the same media kinds.
C30_SiblingHandlersAgree ==
  BothSucceeded =>
    /\ Cardinality(objects) = Cardinality(sibling.objects)
    /\ Cardinality(mediaAssets) = Cardinality(sibling.mediaAssets)
    /\ {<<a.fileName, a.fileType>> : a \in mediaAssets}
         = {<<entryBaseName(b.fileName), b.fileType>> : b \in sibling.mediaAssets}

====
